---- MODULE Spec2Model ----
(***************************************************************************)
(* A model of the ARFID recommendation backends:                           *)
(*   - api/function_app.py : the serverless create_message handler, which  *)
(*     polls the vendor run inline (run_openai);                           *)
(*   - app.py              : the Flask service, which hands the run to a   *)
(*     Celery task (run_openai_task) and keeps assistant ids in Redis.     *)
(* Each deployment talks to the vendor (threads, messages, runs,           *)
(* assistants).  One behaviour follows one deployment: `program` is chosen *)
(* in Init and never changes.                                              *)
(*                                                                         *)
(* A step of a handler is one vendor SDK call together with the local code *)
(* that runs after it up to the next vendor call.  Every vendor call may   *)
(* raise.  Handlers of different requests interleave between steps (both   *)
(* hosts serve requests on a thread pool).                                 *)
(*                                                                         *)
(* function_app.py registers the same handler twice (create_message and    *)
(* create_message2, lines 58-116 and 135-193); FnCreateMessage stands for  *)
(* a request to either route.  In app.py lines 232-238 are indented deeper *)
(* than the assistants.create statement they follow; they are modelled as  *)
(* the statements that follow it in the try block of setup_assistant_task. *)
(***************************************************************************)
EXTENDS Integers, Sequences, FiniteSets, TLC

\* ------------------------------------------------------------------ bounds
MaxReqs == 2        \* requests to the message endpoints and /api/end in one behaviour
MaxStarts == 1      \* requests to /api/start in one behaviour
MaxInFlight == 2    \* requests being handled at the same time
NumClients == 2     \* browser sessions (cookies)

\* ------------------------------------------------------------------ values
NoneVal == "<None>"                 \* Python None (a key missing from the JSON body)
Falsy(v) == v \in {NoneVal, ""}     \* Python `not v` for an optional string

\* The request bodies tried: (patient_likes, patient_dislikes, patient_restrictions)
PromptCases == {<<NoneVal, "", NoneVal>>, <<"", "peas", "nuts">>, <<"rice", "peas", "nuts">>}
UpdateValues == {NoneVal, "more"}

Clients == 1..NumClients

\* The values of OPENAI_VECTOR_STORE_ID tried: unset, empty, set
VectorStoreIds == {NoneVal, "", "vs_1"}

\* f-string conversion of an optional string
Str(v) == IF v = NoneVal THEN "None" ELSE v

\* vendor run statuses
Active == {"queued", "in_progress"}
Terminal == {"completed", "failed", "expired"}

VARIABLES
    program,        \* which program this behaviour runs: "function_app" | "flask"
    threads,        \* vendor: thread id -> [by, msgs]; a message is [role, text, by]
    runs,           \* vendor: run id -> [thread, assistant, status, by]
    assistants,     \* vendor: assistant id -> [vs, deleted]
    vectorStores,   \* vendor: the set of vector store ids that exist
    THREAD_ID,      \* os.environ["THREAD_ID"] of the web process (0: unset)
    reqs,           \* HTTP requests, in order of arrival, with each handler's position
    lastRecorded,   \* history: the thread id recorded by the latest initial request
    session,        \* Flask: client -> session["THREAD_ID"] (0: unset)
    redis,          \* Flask: the Redis keys set by the service, a set of [key, val]
    tasks,          \* Flask: Celery tasks, in order of apply_async
    OPENAI_VECTOR_STORE_ID, \* Flask: the configured vector store id
    script          \* scripts/upload-pdfs-to-openai.py: the run of main()

vendorVars == <<threads, runs, assistants, vectorStores>>
flaskVars == <<session, redis, tasks, OPENAI_VECTOR_STORE_ID>>
vars == <<program, threads, runs, assistants, vectorStores, THREAD_ID, reqs,
          lastRecorded, session, redis, tasks, OPENAI_VECTOR_STORE_ID, script>>

\* ------------------------------------------------------------------ vendor
ActiveRun(t) == \E i \in 1..Len(runs) : runs[i].thread = t /\ runs[i].status \in Active

Message(role, text, by) == [role |-> role, text |-> text, by |-> by]

\* An initial request that starts the recorded thread over instead of adding one
ThreadsRecreate(msgs, by) ==
    IF THREAD_ID # 0
    THEN [threads EXCEPT ![THREAD_ID] = [by |-> by, msgs |-> msgs]]
    ELSE Append(threads, [by |-> by, msgs |-> msgs])

\* client.beta.threads.create(messages=msgs): a new thread, its id the next one
ThreadsCreate(msgs, by) == Append(threads, [by |-> by, msgs |-> msgs])

\* client.beta.threads.messages.create(thread_id=t, ...): the message goes last
MessagesCreate(t, msg) == [threads EXCEPT ![t].msgs = Append(@, msg)]

\* The vendor accepts a message for an existing thread with no active run.
MessagesCreateOk(t) == t \in 1..Len(threads) /\ ~ActiveRun(t)

\* client.beta.threads.runs.create(thread_id=t, assistant_id=a, ...)
RunsCreate(t, a, by) ==
    Append(runs, [thread |-> t, assistant |-> a, status |-> "queued", by |-> by])

\* The vendor starts a run on an existing thread with no active run, for an
\* assistant that exists.
RunsCreateOk(t, a) ==
    /\ t \in 1..Len(threads)
    /\ ~ActiveRun(t)
    /\ a \in 1..Len(assistants)
    /\ ~assistants[a].deleted

\* client.beta.threads.messages.list(thread_id=t).data: newest first
RECURSIVE Reverse(_)
Reverse(s) == IF s = <<>> THEN <<>> ELSE Append(Reverse(Tail(s)), Head(s))

MessagesList(t) == Reverse(threads[t].msgs)

AssistantText == <<"{recommendations}">>

\* The vendor picks a queued run up.
VendorRunStart(i) ==
    /\ runs[i].status = "queued"
    /\ runs' = [runs EXCEPT ![i].status = "in_progress"]
    /\ UNCHANGED <<program, threads, assistants, vectorStores, THREAD_ID, reqs,
                   lastRecorded, flaskVars, script>>

\* A run completes: the assistant's message is appended to the run's thread.
VendorRunComplete(i) ==
    /\ runs[i].status = "in_progress"
    /\ runs' = [runs EXCEPT ![i].status = "completed"]
    /\ threads' = MessagesCreate(runs[i].thread, Message("assistant", AssistantText, runs[i].by))
    /\ UNCHANGED <<program, assistants, vectorStores, THREAD_ID, reqs, lastRecorded, flaskVars, script>>

\* A run ends in another terminal status and leaves no message.
VendorRunEnd(i, status) ==
    /\ runs[i].status \in Active
    /\ status \in Terminal \ {"completed"}
    /\ runs' = [runs EXCEPT ![i].status = status]
    /\ UNCHANGED <<program, threads, assistants, vectorStores, THREAD_ID, reqs,
                   lastRecorded, flaskVars, script>>

\* ------------------------------------------------------------------ requests
NoResp == [status |-> 0, body |-> <<>>]

NoKey == <<>>       \* no assistant_key in the body (None)
NoBytes == <<>>     \* redis_client.get of a key that is not set (None)

\* hashlib.sha256(raw.encode("utf-8")).hexdigest(): a digest, one per id
Sha256Hex(raw) == <<"sha256", raw>>

\* the assistant the key was made for has been deleted at the vendor
Expired(key) ==
    \E a \in 1..Len(assistants) : assistants[a].deleted /\ key = Sha256Hex(a)

NewReq(kind, client, initial, p1, p2, p3, update, key) ==
    [kind |-> kind, client |-> client, initial |-> initial,
     prompt1 |-> p1, prompt2 |-> p2, prompt3 |-> p3, update |-> update,
     assistant_key |-> key,
     pc |-> "new",          \* the vendor call the handler is about to make
     thread_id |-> 0,       \* the handler's local thread_id
     raw_assistant_id |-> 0, \* the handler's local raw_assistant_id
     recorded |-> 0,        \* history: lastRecorded when thread_id was read
     run |-> 0,             \* the run the handler created
     observed |-> NoneVal,  \* run.status as last retrieved
     relayed |-> 0,         \* history: how many messages the thread held when listed
     raised |-> NoneVal,    \* history: str(e) of the exception a vendor call raised
     task_id |-> 0,         \* the task_id of a status request
     stored |-> NoBytes,    \* history: the Redis entry of the key a status request reported
     late |-> Expired(key), \* history: the key's assistant was deleted before the request
     resp |-> NoResp]

InFlight == {r \in 1..Len(reqs) : reqs[r].pc # "done"}

CanArrive == Len(reqs) < MaxReqs /\ Cardinality(InFlight) < MaxInFlight

\* str(e) of the exception raised by the vendor call made at position pc
ExcMsg(pc) == "Error: " \o pc

Respond(r, status, body) ==
    [reqs EXCEPT ![r].pc = "done", ![r].resp = [status |-> status, body |-> body]]

\* ------------------------------------------------------- api/function_app.py
assistant_id == 1   \* os.environ.get("ASSISTANT_ID"): the assistant configured for the app

FnInitialText ==
    <<"Create 20 simple recommendations for a patient with ARFID. Focus the recommendations on using 3 or less ingredients to broaden the patient's diet.">>

\* line 70: the request is rejected
FnRejected(q) ==
    \/ (q.initial /\ Falsy(q.prompt1) /\ Falsy(q.prompt2) /\ Falsy(q.prompt3))
    \/ (~q.initial /\ Falsy(q.update))

\* create_message, lines 64-77 and 107: parse and validate, files.create; a
\* follow-up then reads THREAD_ID.  The request is taken up when files.create
\* returns or raises: nothing before that is seen by another handler.
FnCreateMessage(initial, p1, p2, p3, update, filesRaises) ==
    /\ program = "function_app"
    /\ CanArrive
    /\ LET q == NewReq("create_message", 1, initial, p1, p2, p3, update, 0) IN
       reqs' = Append(reqs,
                IF FnRejected(q)
                THEN [q EXCEPT !.pc = "done",
                               !.resp = [status |-> 400, body |-> <<"All inputs are required">>]]
                ELSE IF filesRaises
                THEN [q EXCEPT !.pc = "done", !.raised = ExcMsg("files"),
                               !.resp = [status |-> 500, body |-> <<ExcMsg("files")>>]]
                ELSE IF initial
                THEN [q EXCEPT !.pc = "thread"]
                ELSE [q EXCEPT !.pc = "update", !.thread_id = THREAD_ID,
                               !.recorded = lastRecorded])
    /\ UNCHANGED <<program, vendorVars, THREAD_ID, lastRecorded, flaskVars, script>>

\* A handler that creates the thread and leaves THREAD_ID as it was
FnRecordThreadStale(id) == THREAD_ID

\* lines 81-96: the new thread with its first message; its id is recorded
FnRecordThread(id) == id

FnThreadsCreate(r) ==
    /\ reqs[r].pc = "thread"
    /\ threads' = ThreadsCreate(<<Message("user", FnInitialText, r)>>, r)
    /\ LET thread_id == Len(threads') IN
       /\ THREAD_ID' = FnRecordThread(thread_id)
       /\ lastRecorded' = thread_id
       /\ reqs' = [reqs EXCEPT ![r].pc = "m1", ![r].thread_id = thread_id]
    /\ UNCHANGED <<program, runs, assistants, vectorStores, flaskVars, script>>

FnContent(q) ==
    CASE q.pc = "m1" -> <<q.prompt1>>
      [] q.pc = "m2" -> <<q.prompt2>>
      [] q.pc = "m3" -> <<q.prompt3>>
      [] q.pc = "update" -> <<q.update>>

FnAfterMessage(pc) ==
    CASE pc = "m1" -> "m2"
      [] pc = "m2" -> "m3"
      [] pc = "m3" -> "run"
      [] pc = "update" -> "run"

\* lines 97-105 and 108-110: one messages.create
FnMessagesCreate(r) ==
    /\ reqs[r].pc \in {"m1", "m2", "m3", "update"}
    /\ MessagesCreateOk(reqs[r].thread_id)
    /\ threads' = MessagesCreate(reqs[r].thread_id, Message("user", FnContent(reqs[r]), r))
    /\ reqs' = [reqs EXCEPT ![r].pc = FnAfterMessage(@)]
    /\ UNCHANGED <<program, runs, assistants, vectorStores, THREAD_ID, lastRecorded, flaskVars, script>>

\* run_openai, lines 121-123
FnRunThread(q) == q.thread_id

FnRunsCreate(r) ==
    /\ reqs[r].pc = "run"
    /\ RunsCreateOk(FnRunThread(reqs[r]), assistant_id)
    /\ runs' = RunsCreate(FnRunThread(reqs[r]), assistant_id, r)
    /\ reqs' = [reqs EXCEPT ![r].pc = "poll", ![r].run = Len(runs')]
    /\ UNCHANGED <<program, threads, assistants, vectorStores, THREAD_ID, lastRecorded, flaskVars, script>>

\* A loop that is left on every terminal status
FnPollDoneOnTerminal(status) == status \in Terminal

\* line 126: the loop is left for the listing
FnPollDone(status) == status = "completed"

\* run_openai, lines 124-126 and 130: one round of the loop
FnRunsRetrieve(r) ==
    /\ reqs[r].pc = "poll"
    /\ LET status == runs[reqs[r].run].status IN
       reqs' = [reqs EXCEPT ![r].observed = status,
                            ![r].pc = IF FnPollDone(status) THEN "list" ELSE "poll"]
    /\ UNCHANGED <<program, vendorVars, THREAD_ID, lastRecorded, flaskVars, script>>

\* run_openai, lines 127-129: messages.data[0] is relayed
FnMessagesList(r) ==
    /\ reqs[r].pc = "list"
    /\ LET data == MessagesList(reqs[r].thread_id)
           last_message == data[1] IN
       reqs' = [Respond(r, 200, last_message.text)
                    EXCEPT ![r].relayed = Len(threads[reqs[r].thread_id].msgs)]
    /\ UNCHANGED <<program, vendorVars, THREAD_ID, lastRecorded, flaskVars, script>>

FnCallPcs == {"thread", "m1", "m2", "m3", "update", "run", "poll", "list"}

\* lines 112-116 and 131-132: a vendor call raises; str(e) is the 500 body
FnRaise(r) ==
    /\ program = "function_app"
    /\ reqs[r].pc \in FnCallPcs
    /\ reqs' = [Respond(r, 500, <<ExcMsg(reqs[r].pc)>>) EXCEPT ![r].raised = ExcMsg(reqs[r].pc)]
    /\ UNCHANGED <<program, vendorVars, THREAD_ID, lastRecorded, flaskVars, script>>

FnHandler(r) ==
    /\ program = "function_app"
    /\ \/ FnThreadsCreate(r)
       \/ FnMessagesCreate(r)
       \/ FnRunsCreate(r)
       \/ FnRunsRetrieve(r)
       \/ FnMessagesList(r)

\* -------------------------------------------------------------------- app.py
\* A Redis key that leaves the digest out
RedisKeyBare(key) == <<"assistant:", <<>>>>

\* f"assistant:{key}"
RedisKey(key) == <<"assistant:", key>>

\* str -> bytes as Redis stores it, and bytes.decode("utf-8")
Utf8Encode(raw) == <<"bytes", raw>>
Utf8Decode(b) == b[2]

RedisSet(key, val) == {e \in redis : e.key # key} \cup {[key |-> key, val |-> val]}
RedisGet(key) == IF \E e \in redis : e.key = key
                 THEN (CHOOSE e \in redis : e.key = key).val
                 ELSE NoBytes
RedisDelete(key) == {e \in redis : e.key # key}

\* A Celery task; state and result are what AsyncResult shows.
NewTask(kind, by, thread_id, a) ==
    [kind |-> kind, by |-> by, thread_id |-> thread_id, assistant_id |-> a,
     pc |-> IF kind = "setup" THEN "setup" ELSE "run",
     run |-> 0, observed |-> NoneVal, relayed |-> 0,
     created |-> 0,         \* history: the assistant a setup task created
     state |-> "PENDING", result |-> [type |-> "unset"]]

Finish(t, result) ==
    [tasks EXCEPT ![t].pc = "done", ![t].state = "SUCCESS", ![t].result = result]

\* A setup that does not look at the configuration
SetupAlwaysConfigured == TRUE

\* line 83: the guard of the creation
SetupConfigured == ~Falsy(OPENAI_VECTOR_STORE_ID)

\* setup_assistant_task, lines 83-85: the vector store id is not configured
SetupNotConfigured(t) ==
    /\ tasks[t].pc = "setup"
    /\ ~SetupConfigured
    /\ tasks' = Finish(t, [type |-> "dict",
                           error |-> "Vector store not configured."])
    /\ UNCHANGED <<program, vendorVars, THREAD_ID, reqs, lastRecorded, session, redis,
                   OPENAI_VECTOR_STORE_ID, script>>

\* line 96: tool_resources of the assistant created
SetupVectorStoreIds == <<OPENAI_VECTOR_STORE_ID>>

\* line 235: what is stored under the key
SetupStored(raw_assistant_id) == Utf8Encode(raw_assistant_id)

\* setup_assistant_task, lines 90-238: the assistant is created and its id stored
SetupAssistantCreate(t) ==
    /\ tasks[t].pc = "setup"
    /\ SetupConfigured
    /\ assistants' = Append(assistants, [vs |-> SetupVectorStoreIds, deleted |-> FALSE])
    /\ LET raw_assistant_id == Len(assistants')
           hashed_key == Sha256Hex(raw_assistant_id) IN
       /\ redis' = RedisSet(RedisKey(hashed_key), SetupStored(raw_assistant_id))
       /\ tasks' = [Finish(t, [type |-> "dict", assistant_key |-> hashed_key,
                               status |-> "completed"])
                        EXCEPT ![t].created = raw_assistant_id]
    /\ UNCHANGED <<program, threads, runs, vectorStores, THREAD_ID, reqs, lastRecorded,
                   session, OPENAI_VECTOR_STORE_ID, script>>

\* setup_assistant_task, lines 240-242: assistants.create raises
SetupRaise(t) ==
    /\ tasks[t].pc = "setup"
    /\ SetupConfigured
    /\ tasks' = Finish(t, [type |-> "dict", error |-> ExcMsg("setup")])
    /\ UNCHANGED <<program, vendorVars, THREAD_ID, reqs, lastRecorded, session, redis,
                   OPENAI_VECTOR_STORE_ID, script>>

\* start, lines 245-250: the setup task is queued (the 202 response carries its id)
Start ==
    /\ program = "flask"
    /\ Len(SelectSeq(tasks, LAMBDA task : task.kind = "setup")) < MaxStarts
    /\ tasks' = Append(tasks, NewTask("setup", 0, 0, 0))
    /\ UNCHANGED <<program, vendorVars, THREAD_ID, reqs, lastRecorded, session, redis,
                   OPENAI_VECTOR_STORE_ID, script>>

\* end, lines 299-307: the key is looked up
End(key) ==
    /\ program = "flask"
    /\ CanArrive
    /\ LET q == NewReq("end", 1, FALSE, NoneVal, NoneVal, NoneVal, NoneVal, key)
           raw == RedisGet(RedisKey(key)) IN
       reqs' = Append(reqs,
                IF key = NoKey
                THEN [q EXCEPT !.pc = "done",
                               !.resp = [status |-> 400, body |-> [error |-> "No assistant found"]]]
                ELSE IF raw = NoBytes
                THEN [q EXCEPT !.pc = "done",
                               !.resp = [status |-> 400,
                                         body |-> [error |-> "Assistant not found in Redis or expired"]]]
                ELSE [q EXCEPT !.pc = "delete", !.raw_assistant_id = Utf8Decode(raw)])
    /\ UNCHANGED <<program, vendorVars, THREAD_ID, lastRecorded, flaskVars, script>>

\* end, line 308: the assistant is deleted at the vendor
EndDelete(r) ==
    /\ reqs[r].kind = "end" /\ reqs[r].pc = "delete"
    /\ LET raw_assistant_id == reqs[r].raw_assistant_id IN
       /\ raw_assistant_id \in 1..Len(assistants)
       /\ ~assistants[raw_assistant_id].deleted
       /\ assistants' = [assistants EXCEPT ![raw_assistant_id].deleted = TRUE]
    /\ reqs' = [reqs EXCEPT ![r].pc = "redis.delete"]
    /\ UNCHANGED <<program, threads, runs, vectorStores, THREAD_ID, lastRecorded, flaskVars, script>>

\* end, lines 309-312: then the key is deleted from Redis
EndRedisDelete(r) ==
    /\ reqs[r].kind = "end" /\ reqs[r].pc = "redis.delete"
    /\ redis' = RedisDelete(RedisKey(reqs[r].assistant_key))
    /\ reqs' = Respond(r, 200, [message |-> "Assistant deleted successfully"])
    /\ UNCHANGED <<program, vendorVars, THREAD_ID, lastRecorded, session, tasks,
                   OPENAI_VECTOR_STORE_ID, script>>

\* end, lines 313-315: assistants.delete raises
EndRaise(r) ==
    /\ reqs[r].kind = "end" /\ reqs[r].pc = "delete"
    /\ reqs' = [Respond(r, 500, [error |-> ExcMsg("delete")]) EXCEPT ![r].raised = ExcMsg("delete")]
    /\ UNCHANGED <<program, vendorVars, THREAD_ID, lastRecorded, flaskVars, script>>

\* The assistant_key values tried: none, the key of each assistant that may come
\* to exist (unknown before its setup, expired after its /api/end), and a key
\* that no setup ever returns
Keys == {NoKey} \cup {Sha256Hex(a) : a \in 1..(MaxStarts + 1)}

\* create_message, line 329: the request is rejected
FlaskRejected(q) ==
    \/ (q.initial /\ Falsy(q.prompt1) /\ Falsy(q.prompt2) /\ Falsy(q.prompt3))
    \/ (~q.initial /\ Falsy(q.update))

\* jsonify(error=str(e), status=500): keyword arguments make the JSON body; the
\* view returns no status code, so the response is sent with 200
JsonifyKwError(msg) == [status |-> 200, body |-> [error |-> msg, status |-> 500]]

\* jsonify({...}, status=400): positional and keyword arguments together raise
JsonifyTypeError == "TypeError: app.json.response() takes either args or kwargs, not both"

\* os.environ.get("THREAD_ID") or session.get("THREAD_ID")
ThreadIdOf(client) == IF THREAD_ID # 0 THEN THREAD_ID ELSE session[client]

\* create_message, lines 322-330 and 351: parse and validate; a follow-up reads
\* the thread id
CreateMessage(client, initial, p1, p2, p3, update, key) ==
    /\ program = "flask"
    /\ CanArrive
    /\ LET q == NewReq("create_message", client, initial, p1, p2, p3, update, key) IN
       reqs' = Append(reqs,
                IF FlaskRejected(q)
                THEN [q EXCEPT !.pc = "done", !.resp = JsonifyKwError(JsonifyTypeError)]
                ELSE IF initial
                THEN [q EXCEPT !.pc = "thread"]
                ELSE [q EXCEPT !.pc = "update", !.thread_id = ThreadIdOf(client),
                               !.recorded = lastRecorded])
    /\ UNCHANGED <<program, vendorVars, THREAD_ID, lastRecorded, flaskVars, script>>

\* lines 334-337: the new, empty thread; its id is recorded
FlaskRecordThread(id) == id

FlaskThreadsCreate(r) ==
    /\ reqs[r].kind = "create_message" /\ reqs[r].pc = "thread"
    /\ threads' = ThreadsCreate(<<>>, r)
    /\ LET thread_id == Len(threads') IN
       /\ THREAD_ID' = FlaskRecordThread(thread_id)
       /\ session' = [session EXCEPT ![reqs[r].client] = thread_id]
       /\ lastRecorded' = thread_id
       /\ reqs' = [reqs EXCEPT ![r].pc = "m1", ![r].thread_id = thread_id]
    /\ UNCHANGED <<program, runs, assistants, vectorStores, redis, tasks, OPENAI_VECTOR_STORE_ID, script>>

Recommendations == "[rice]"     \* the "recommendations" of an update_with_selections body

FlaskContent(q) ==
    CASE q.pc = "m1" -> <<"Include these foods of patients ", Str(q.prompt1)>>
      [] q.pc = "m2" -> <<"Do not include these foods patient doesn't like or eats: ", Str(q.prompt2)>>
      [] q.pc = "m3" -> <<"Each recommendation should build on one of these foods ", Str(q.prompt1),
                          " or provide an alternative to one of these foods ", Str(q.prompt2)>>
      [] q.pc = "m4" -> <<"Patient is allergic or has restrictions and can't eat: ", Str(q.prompt3)>>
      [] q.pc = "update" -> <<q.update>>
      [] q.pc = "u1" -> <<"Updates from user: ", Str(q.update)>>
      [] q.pc = "u2" -> <<"The user has provided the following recommendations: ", Recommendations,
                          ", please give more suggestions like that.">>
      [] q.pc = "u3" -> <<"Please provide 20 recommendations in the same format as before.">>

FlaskAfterMessage(pc) ==
    CASE pc = "m1" -> "m2"
      [] pc = "m2" -> "m3"
      [] pc = "m3" -> "m4"
      [] pc = "u1" -> "u2"
      [] pc = "u2" -> "u3"
      [] pc \in {"m4", "update", "u3"} -> "enqueue"

\* lines 357-361 and 427-431: the assistant id the key stands for (0: not found)
FlaskLookup(key) ==
    LET raw_assistant_id == RedisGet(RedisKey(key)) IN
    IF raw_assistant_id = NoBytes THEN 0 ELSE Utf8Decode(raw_assistant_id)

\* A task given the recorded thread id as it is when the task is queued
FlaskTaskThreadRecorded(q) == ThreadIdOf(q.client)

\* lines 364 and 432: the thread the task is given
FlaskTaskThread(q) == q.thread_id

\* lines 355-366 and 425-433, which follow the last messages.create at once
FlaskEnqueue(r, q) ==
    IF q.pc # "enqueue"
    THEN /\ reqs' = [reqs EXCEPT ![r] = q]
         /\ UNCHANGED tasks
    ELSE IF q.assistant_key = NoKey
    THEN /\ reqs' = [reqs EXCEPT ![r] = [q EXCEPT !.pc = "done",
                        !.resp = [status |-> 400,
                                  body |-> [error |-> "Assistant not found in session"]]]]
         /\ UNCHANGED tasks
    ELSE IF FlaskLookup(q.assistant_key) = 0
    THEN /\ reqs' = [reqs EXCEPT ![r] = [q EXCEPT !.pc = "done",
                        !.resp = [status |-> 400,
                                  body |-> [error |-> "Assistant not found in Redis or expired"]]]]
         /\ UNCHANGED tasks
    ELSE /\ tasks' = Append(tasks, NewTask("run", r, FlaskTaskThread(q),
                                           FlaskLookup(q.assistant_key)))
         /\ reqs' = [reqs EXCEPT ![r] = [q EXCEPT !.pc = "done",
                        !.raw_assistant_id = FlaskLookup(q.assistant_key),
                        !.resp = [status |-> 202, body |-> [task_id |-> Len(tasks')]]]]

\* lines 338-349, 352-354 and 416-424: one messages.create
FlaskMessagesCreate(r) ==
    /\ reqs[r].pc \in {"m1", "m2", "m3", "m4", "update", "u1", "u2", "u3"}
    /\ MessagesCreateOk(reqs[r].thread_id)
    /\ threads' = MessagesCreate(reqs[r].thread_id, Message("user", FlaskContent(reqs[r]), r))
    /\ FlaskEnqueue(r, [reqs[r] EXCEPT !.pc = FlaskAfterMessage(@)])
    /\ UNCHANGED <<program, runs, assistants, vectorStores, THREAD_ID, lastRecorded, session,
                   redis, OPENAI_VECTOR_STORE_ID, script>>

\* create_message, lines 367-369: a vendor call raises
CreateMessageRaise(r) ==
    /\ reqs[r].kind = "create_message"
    /\ reqs[r].pc \in {"thread", "m1", "m2", "m3", "m4", "update"}
    /\ reqs' = [reqs EXCEPT ![r].pc = "done", ![r].raised = ExcMsg(reqs[r].pc),
                            ![r].resp = JsonifyKwError(ExcMsg(reqs[r].pc))]
    /\ UNCHANGED <<program, vendorVars, THREAD_ID, lastRecorded, flaskVars, script>>

\* AsyncResult(task_id).state and .result: a task the backend has no result
\* for is PENDING
AsyncResult(task_id) ==
    IF task_id \in 1..Len(tasks)
    THEN [state |-> tasks[task_id].state, result |-> tasks[task_id].result]
    ELSE [state |-> "PENDING", result |-> [type |-> "None"]]

\* get_message, lines 445-460
GetMessageResponse(task) ==
    IF task.state = "PENDING"
    THEN [state |-> task.state, status |-> "Pending..."]
    ELSE IF task.state # "FAILURE"
    THEN [state |-> task.state, result |-> task.result]
    ELSE [state |-> task.state, error |-> task.result]

\* get_message, lines 435-461
GetMessage(task_id) ==
    /\ program = "flask"
    /\ CanArrive
    /\ LET q == [NewReq("get_message", 1, FALSE, NoneVal, NoneVal, NoneVal, NoneVal, NoKey)
                    EXCEPT !.task_id = task_id, !.pc = "done"] IN
       reqs' = Append(reqs,
                IF task_id = 0
                THEN [q EXCEPT !.resp = [status |-> 400, body |-> [error |-> "task_id is required"]]]
                ELSE [q EXCEPT !.resp = [status |-> 200,
                                         body |-> GetMessageResponse(AsyncResult(task_id))]])
    /\ UNCHANGED <<program, vendorVars, THREAD_ID, lastRecorded, flaskVars, script>>

\* a status check that takes any dict for the result of a setup
StartStatusReadyAnyDict(result) == result.type = "dict"

\* get_start_status, line 274
StartStatusReady(result) == result.type = "dict" /\ "assistant_key" \in DOMAIN result

\* get_start_status, lines 266-294; result.get on a result that is no dict
\* raises AttributeError
StartStatusResponse(task) ==
    IF task.state = "PENDING"
    THEN [status |-> 200,
          body |-> [state |-> task.state, status |-> "Setting up assistant...",
                    progress |-> "Uploading files and creating assistant"]]
    ELSE IF task.state = "SUCCESS"
    THEN IF StartStatusReady(task.result)
         THEN [status |-> 200,
               body |-> [state |-> task.state,
                         assistant_key |-> IF "assistant_key" \in DOMAIN task.result
                                           THEN task.result.assistant_key ELSE NoKey,
                         status |-> "Assistant ready"]]
         ELSE IF task.result.type = "dict"
         THEN [status |-> 200,
               body |-> [state |-> "FAILURE",
                         error |-> IF "error" \in DOMAIN task.result
                                   THEN task.result.error ELSE "Unknown error"]]
         ELSE [status |-> 500, body |-> [error |-> "AttributeError: no attribute 'get'"]]
    ELSE [status |-> 200, body |-> [state |-> task.state, error |-> "Task failed"]]

\* get_start_status, lines 255-294
GetStartStatus(task_id) ==
    /\ program = "flask"
    /\ CanArrive
    /\ LET q == [NewReq("start/status", 1, FALSE, NoneVal, NoneVal, NoneVal, NoneVal, NoKey)
                    EXCEPT !.task_id = task_id, !.pc = "done"]
           resp == StartStatusResponse(AsyncResult(task_id)) IN
       reqs' = Append(reqs,
                IF task_id = 0
                THEN [q EXCEPT !.resp = [status |-> 400, body |-> [error |-> "No task ID provided"]]]
                ELSE [q EXCEPT !.resp = resp,
                               !.stored = IF "assistant_key" \in DOMAIN resp.body
                                          THEN RedisGet(RedisKey(resp.body.assistant_key))
                                          ELSE NoBytes])
    /\ UNCHANGED <<program, vendorVars, THREAD_ID, lastRecorded, flaskVars, script>>

\* submit_recommendations, lines 407-415
SubmitRecommendations(client, update, key) ==
    /\ program = "flask"
    /\ CanArrive
    /\ LET thread_id == ThreadIdOf(client)
           q == [NewReq("update_with_selections", client, FALSE, NoneVal, NoneVal, NoneVal,
                        update, key) EXCEPT !.thread_id = thread_id,
                                            !.recorded = lastRecorded] IN
       reqs' = Append(reqs,
                IF thread_id = 0
                THEN [q EXCEPT !.pc = "done",
                               !.resp = [status |-> 400, body |-> [error |-> "Thread ID not found"]]]
                ELSE [q EXCEPT !.pc = "u1"])
    /\ UNCHANGED <<program, vendorVars, THREAD_ID, lastRecorded, flaskVars, script>>

\* submit_recommendations has no handler of its own: Flask answers an exception
\* that leaves the view with 500 Internal Server Error
SubmitRecommendationsRaise(r) ==
    /\ reqs[r].kind = "update_with_selections"
    /\ reqs[r].pc \in {"u1", "u2", "u3"}
    /\ reqs' = [Respond(r, 500, [error |-> "Internal Server Error"])
                    EXCEPT ![r].raised = ExcMsg(reqs[r].pc)]
    /\ UNCHANGED <<program, vendorVars, THREAD_ID, lastRecorded, flaskVars, script>>

\* run_openai_task, lines 376-379: create_and_poll creates the run
TaskRunsCreate(t) ==
    /\ tasks[t].pc = "run"
    /\ RunsCreateOk(tasks[t].thread_id, tasks[t].assistant_id)
    /\ runs' = RunsCreate(tasks[t].thread_id, tasks[t].assistant_id, tasks[t].by)
    /\ tasks' = [tasks EXCEPT ![t].pc = "poll", ![t].run = Len(runs')]
    /\ UNCHANGED <<program, threads, assistants, vectorStores, THREAD_ID, reqs, lastRecorded,
                   session, redis, OPENAI_VECTOR_STORE_ID, script>>

\* line 382: the result is read from the thread
TaskReadsResult(status) == status = "completed"

\* lines 376-382: create_and_poll returns the run once its status is terminal;
\* a run that did not complete leaves the task without a return value
TaskPoll(t) ==
    /\ tasks[t].pc = "poll"
    /\ LET status == runs[tasks[t].run].status IN
       /\ status \in Terminal
       /\ tasks' = IF TaskReadsResult(status)
                   THEN [tasks EXCEPT ![t].pc = "list", ![t].observed = status]
                   ELSE [Finish(t, [type |-> "None"]) EXCEPT ![t].observed = status]
    /\ UNCHANGED <<program, vendorVars, THREAD_ID, reqs, lastRecorded, session, redis,
                   OPENAI_VECTOR_STORE_ID, script>>

\* lines 389-393: the assistant's messages of the listing, in its order
AssistantMessages(data) == SelectSeq(data, LAMBDA msg : msg.role = "assistant")

\* lines 384-399
TaskMessagesList(t) ==
    /\ tasks[t].pc = "list"
    /\ LET assistant_messages == AssistantMessages(MessagesList(tasks[t].thread_id)) IN
       tasks' = [Finish(t, IF Len(assistant_messages) > 0
                           THEN [type |-> "str", text |-> assistant_messages[1].text]
                           ELSE [type |-> "tuple",
                                 error |-> "No assistant messages found, please resubmit response",
                                 status |-> 500])
                     EXCEPT ![t].relayed = Len(threads[tasks[t].thread_id].msgs)]
    /\ UNCHANGED <<program, vendorVars, THREAD_ID, reqs, lastRecorded, session, redis,
                   OPENAI_VECTOR_STORE_ID, script>>

\* lines 401-403: a vendor call of the task raises
TaskRaise(t) ==
    /\ tasks[t].pc \in {"run", "poll", "list"}
    /\ tasks' = Finish(t, [type |-> "dict", error |-> ExcMsg(tasks[t].pc), status |-> 500])
    /\ UNCHANGED <<program, vendorVars, THREAD_ID, reqs, lastRecorded, session, redis,
                   OPENAI_VECTOR_STORE_ID, script>>

(***************************************************************************)
(* scripts/upload-pdfs-to-openai.py: main().  One step is the local code   *)
(* up to the next point where the script waits for the user or the vendor. *)
(* exit_code is -1 while the process runs.                                 *)
(***************************************************************************)
MaxPdfs == 2

ApiKeys == {NoneVal, "", "sk-key"}

Responses == {"yes", "y", "YES", "Y", "no", ""}

Lower(s) == CASE s = "YES" -> "yes" [] s = "Y" -> "y" [] OTHER -> s

NoBatch == [status |-> NoneVal, completed |-> 0, failed |-> 0, in_progress |-> 0]

\* what upload_and_poll can return for n files
FileBatches(n) ==
    {[status |-> st, completed |-> c, failed |-> f, in_progress |-> n - c - f] :
        <<st, c, f>> \in {x \in {"completed", "in_progress", "failed", "cancelled"}
                                \X (0..n) \X (0..n) : x[2] + x[3] <= n}}

ScriptIdle ==
    [pc |-> "idle", api_key |-> NoneVal, files_dir |-> FALSE, pdf_files |-> 0,
     response |-> NoneVal, vector_store |-> NoneVal, file_batch |-> NoBatch,
     printed |-> NoneVal, exit_code |-> -1]

SysExit(code) == script' = [script EXCEPT !.pc = "exit", !.exit_code = code]

\* the validation with the PDF listing left unchecked
ScriptValidatedAnyListing ==
    /\ ~Falsy(script.api_key)
    /\ script.files_dir

\* lines 31-63: API key, files directory, PDF listing
ScriptValidated ==
    /\ ~Falsy(script.api_key)
    /\ script.files_dir
    /\ script.pdf_files > 0

ScriptFindPdfs ==
    /\ program = "script" /\ script.pc = "main"
    /\ IF ScriptValidated
       THEN script' = [script EXCEPT !.pc = "input"]
       ELSE SysExit(1)
    /\ UNCHANGED <<program, vendorVars, THREAD_ID, reqs, lastRecorded, flaskVars>>

\* lines 65-70: the confirmation prompt
ScriptInput(response) ==
    /\ program = "script" /\ script.pc = "input"
    /\ IF Lower(response) \notin {"yes", "y"}
       THEN script' = [script EXCEPT !.pc = "exit", !.exit_code = 0, !.response = response]
       ELSE script' = [script EXCEPT !.pc = "vector_stores.create", !.response = response]
    /\ UNCHANGED <<program, vendorVars, THREAD_ID, reqs, lastRecorded, flaskVars>>

\* lines 72-81: client.vector_stores.create
ScriptVectorStoresCreate ==
    /\ program = "script" /\ script.pc = "vector_stores.create"
    /\ \/ /\ vectorStores' = vectorStores \cup {"vs_2"}
          /\ script' = [script EXCEPT !.pc = "upload_and_poll", !.vector_store = "vs_2"]
       \/ /\ SysExit(1)
          /\ UNCHANGED vectorStores
    /\ UNCHANGED <<program, threads, runs, assistants, THREAD_ID, reqs, lastRecorded, flaskVars>>

\* lines 101-121: the status check after upload_and_poll returned
ScriptUploadOk(file_batch) == file_batch.status \in {"completed", "in_progress"}

\* lines 83-133: open the streams, upload_and_poll, status check
ScriptUploadAndPoll ==
    /\ program = "script" /\ script.pc = "upload_and_poll"
    /\ script.vector_store \in vectorStores
    /\ \/ \E file_batch \in FileBatches(script.pdf_files) :
             IF ScriptUploadOk(file_batch)
             THEN script' = [script EXCEPT !.pc = "report", !.file_batch = file_batch]
             ELSE script' = [script EXCEPT !.pc = "exit", !.exit_code = 1,
                                           !.file_batch = file_batch]
       \/ SysExit(1)
    /\ UNCHANGED <<program, vendorVars, THREAD_ID, reqs, lastRecorded, flaskVars>>

\* lines 135-171: the success report; main() returns and the process ends
ScriptReport ==
    /\ program = "script" /\ script.pc = "report"
    /\ script' = [script EXCEPT !.pc = "exit", !.exit_code = 0,
                                !.printed = script.vector_store]
    /\ UNCHANGED <<program, vendorVars, THREAD_ID, reqs, lastRecorded, flaskVars>>

\* ------------------------------------------------------------------ system
Init ==
    /\ program \in {"function_app", "flask"}
    /\ threads = <<>>
    /\ runs = <<>>
    /\ assistants = IF program = "function_app"
                    THEN <<[vs |-> <<>>, deleted |-> FALSE]>>
                    ELSE <<>>
    /\ vectorStores = {"vs_1"}
    /\ THREAD_ID = 0
    /\ reqs = <<>>
    /\ lastRecorded = 0
    /\ session = [c \in Clients |-> 0]
    /\ redis = {}
    /\ tasks = <<>>
    /\ OPENAI_VECTOR_STORE_ID \in IF program = "flask" THEN VectorStoreIds ELSE {NoneVal}
    /\ script = ScriptIdle

Vendor ==
    \E i \in 1..Len(runs) :
        \/ VendorRunStart(i)
        \/ VendorRunComplete(i)
        \/ \E status \in Terminal : VendorRunEnd(i, status)

FunctionApp ==
    \/ \E p \in PromptCases, x \in BOOLEAN : FnCreateMessage(TRUE, p[1], p[2], p[3], NoneVal, x)
    \/ \E update \in UpdateValues, x \in BOOLEAN :
          FnCreateMessage(FALSE, NoneVal, NoneVal, NoneVal, update, x)
    \/ \E r \in 1..Len(reqs) : FnHandler(r) \/ FnRaise(r)

Flask ==
    \/ Start
    \/ \E key \in Keys : End(key)
    \/ \E client \in Clients, p \in PromptCases, key \in Keys :
          CreateMessage(client, TRUE, p[1], p[2], p[3], NoneVal, key)
    \/ \E client \in Clients, update \in UpdateValues, key \in Keys :
          CreateMessage(client, FALSE, NoneVal, NoneVal, NoneVal, update, key)
    \/ \E client \in Clients, key \in Keys : SubmitRecommendations(client, "more", key)
    \/ \E task_id \in 0..Len(tasks) : GetMessage(task_id)
    \/ \E task_id \in 0..Len(tasks) : GetStartStatus(task_id)
    \/ \E r \in 1..Len(reqs) :
          /\ program = "flask"
          /\ \/ EndDelete(r)
             \/ EndRedisDelete(r)
             \/ EndRaise(r)
             \/ FlaskThreadsCreate(r)
             \/ FlaskMessagesCreate(r)
             \/ CreateMessageRaise(r)
             \/ SubmitRecommendationsRaise(r)

Celery ==
    \E t \in 1..Len(tasks) :
        \/ SetupNotConfigured(t)
        \/ SetupAssistantCreate(t)
        \/ SetupRaise(t)
        \/ TaskRunsCreate(t)
        \/ TaskPoll(t)
        \/ TaskMessagesList(t)
        \/ TaskRaise(t)

Next == Vendor \/ FunctionApp \/ Flask \/ Celery

Spec == Init /\ [][Next]_vars

\* the upload script, started in every environment it can meet
InitScript ==
    /\ program = "script"
    /\ threads = <<>> /\ runs = <<>> /\ assistants = <<>>
    /\ vectorStores = {"vs_1"}
    /\ THREAD_ID = 0 /\ reqs = <<>> /\ lastRecorded = 0
    /\ session = [c \in Clients |-> 0] /\ redis = {} /\ tasks = <<>>
    /\ OPENAI_VECTOR_STORE_ID = NoneVal
    /\ \E api_key \in ApiKeys, files_dir \in BOOLEAN, pdf_files \in 0..MaxPdfs :
          script = [ScriptIdle EXCEPT !.pc = "main", !.api_key = api_key,
                                      !.files_dir = files_dir, !.pdf_files = pdf_files]

Script ==
    \/ ScriptFindPdfs
    \/ \E response \in Responses : ScriptInput(response)
    \/ ScriptVectorStoresCreate
    \/ ScriptUploadAndPoll
    \/ ScriptReport

SpecScript == InitScript /\ [][Script]_vars

\* ------------------------------------------------------------------ claims
FnRequests == {r \in 1..Len(reqs) : program = "function_app"}
RunTasks == {t \in 1..Len(tasks) : tasks[t].kind = "run"}
SetupTasks == {t \in 1..Len(tasks) : tasks[t].kind = "setup"}

\* C1: in the function app, once the poll loop has retrieved a terminal run
\* status (completed, failed or any other), the handler leaves the loop and
\* answers; it is never back in the loop having seen the run terminated.
C1_PollEndsOnTerminal ==
    \A r \in FnRequests : reqs[r].pc = "poll" => reqs[r].observed \notin Terminal

\* The last message of log written by the assistant (<<>>: none)
LastAssistant(log) ==
    LET mine == SelectSeq(log, LAMBDA msg : msg.role = "assistant") IN
    IF mine = <<>> THEN <<>> ELSE <<mine[Len(mine)]>>

\* The messages thread t held when its first n messages were listed
LogAt(t, n) == SubSeq(threads[t].msgs, 1, n)

\* C2: a relayed result (the 200 body of the function app, the text returned by
\* run_openai_task) is the content of the most recent assistant-authored message
\* the thread held when it was listed, never a user-authored message.
C2_RelaysLastAssistantMessage ==
    /\ \A r \in FnRequests :
          reqs[r].resp.status = 200 =>
             LET last == LastAssistant(LogAt(reqs[r].thread_id, reqs[r].relayed)) IN
             /\ last # <<>>
             /\ reqs[r].resp.body = last[1].text
             /\ LogAt(reqs[r].thread_id, reqs[r].relayed)[reqs[r].relayed].role = "assistant"
    /\ \A t \in RunTasks :
          tasks[t].result.type = "str" =>
             LET last == LastAssistant(LogAt(tasks[t].thread_id, tasks[t].relayed)) IN
             /\ last # <<>>
             /\ tasks[t].result.text = last[1].text

\* C3: a recommendation is relayed (HTTP 200 of the function app, a text result
\* of run_openai_task) only for a run, created for that request, that was
\* observed completed and is completed.
C3_ResultOnlyAfterCompleted ==
    /\ \A r \in FnRequests :
          reqs[r].resp.status = 200 =>
             /\ reqs[r].run \in 1..Len(runs)
             /\ runs[reqs[r].run].by = r
             /\ reqs[r].observed = "completed"
             /\ runs[reqs[r].run].status = "completed"
    /\ \A t \in RunTasks :
          tasks[t].result.type = "str" =>
             /\ tasks[t].run \in 1..Len(runs)
             /\ runs[tasks[t].run].by = tasks[t].by
             /\ tasks[t].observed = "completed"
             /\ runs[tasks[t].run].status = "completed"

\* Witness of C3: runs have ended completed and otherwise, and a result was relayed.
C3_Witness ==
    /\ \E r \in FnRequests : reqs[r].resp.status = 200
    /\ \E i \in 1..Len(runs) : runs[i].status \in Terminal \ {"completed"}

\* C4: a vendor exception raised while a create_message request is handled is
\* answered with HTTP 500 and the exception's message as the body, in both
\* backends.
C4_VendorExceptionGives500 ==
    \A r \in 1..Len(reqs) :
        (reqs[r].kind = "create_message" /\ reqs[r].raised # NoneVal) =>
            /\ reqs[r].resp.status = 500
            /\ IF program = "function_app"
               THEN reqs[r].resp.body = <<reqs[r].raised>>
               ELSE reqs[r].resp.body.error = reqs[r].raised

\* The threads request r created, and the threads that hold a message of r
CreatedBy(r) == {t \in 1..Len(threads) : threads[t].by = r}
UserMessages(t, r) ==
    SelectSeq(threads[t].msgs, LAMBDA msg : msg.by = r /\ msg.role = "user")
AppendedTo(r) == {t \in 1..Len(threads) : UserMessages(t, r) # <<>>}

\* C5: a create_message request with initial_request set creates exactly one
\* new thread (once its threads.create has returned) and its id is the recorded
\* THREAD_ID; a request without it creates no thread and appends its update
\* only to the thread recorded by the latest initial request before it.
C5_ThreadBookkeeping ==
    /\ THREAD_ID = lastRecorded
    /\ \A t \in 1..Len(threads) : reqs[threads[t].by].initial
    /\ \A r \in 1..Len(reqs) :
          reqs[r].kind = "create_message" =>
             IF reqs[r].initial
             THEN /\ Cardinality(CreatedBy(r)) <= 1
                  /\ reqs[r].thread_id # 0 => CreatedBy(r) = {reqs[r].thread_id}
                  /\ reqs[r].pc \in {"m1", "m2", "m3", "m4", "run", "poll", "list"}
                        => Cardinality(CreatedBy(r)) = 1
             ELSE /\ CreatedBy(r) = {}
                  /\ AppendedTo(r) \subseteq {reqs[r].recorded}
                  /\ \A t \in AppendedTo(r) :
                        UserMessages(t, r) = <<Message("user", <<reqs[r].update>>, r)>>
                  /\ reqs[r].pc \in {"run", "poll", "list"} => AppendedTo(r) = {reqs[r].recorded}

\* Witness of C5: an initial request has recorded its thread and a follow-up
\* has appended its update to it.
C5_Witness ==
    \E r \in 1..Len(reqs) :
        /\ reqs[r].kind = "create_message" /\ ~reqs[r].initial
        /\ reqs[r].recorded # 0
        /\ AppendedTo(r) = {reqs[r].recorded}
        /\ CreatedBy(threads[reqs[r].recorded].by) = {reqs[r].recorded}

\* C6: an initial create_message request with any one of patient_likes,
\* patient_dislikes, patient_restrictions missing or empty, and a follow-up with
\* update missing or empty, is answered 400 "All inputs are required".
C6_AllInputsRequired ==
    \A r \in 1..Len(reqs) :
        ( /\ reqs[r].kind = "create_message"
          /\ \/ reqs[r].initial /\ ( \/ Falsy(reqs[r].prompt1)
                                     \/ Falsy(reqs[r].prompt2)
                                     \/ Falsy(reqs[r].prompt3) )
             \/ ~reqs[r].initial /\ Falsy(reqs[r].update) )
        => /\ reqs[r].pc = "done"
           /\ reqs[r].resp.status = 400
           /\ IF program = "function_app"
              THEN reqs[r].resp.body = <<"All inputs are required">>
              ELSE reqs[r].resp.body = [error |-> "All inputs are required"]

\* The user messages a request sends before its run
ExpectedMessages(q) ==
    CASE q.kind = "update_with_selections" -> 3
      [] q.kind = "create_message" /\ q.initial -> 4
      [] q.kind = "create_message" /\ ~q.initial -> 1

\* The run of request r on thread t found all of r's messages on t
AllAppended(r, t) ==
    /\ t = reqs[r].thread_id
    /\ AppendedTo(r) = {t}
    /\ Len(UserMessages(t, r)) = ExpectedMessages(reqs[r])

\* C7: when a request's run exists (function app) or is enqueued (Flask), all
\* user messages of the request are on the thread, and the run is on the thread
\* they were appended to.
C7_MessagesBeforeRun ==
    /\ program = "function_app" => \A i \in 1..Len(runs) : AllAppended(runs[i].by, runs[i].thread)
    /\ \A t \in RunTasks : AllAppended(tasks[t].by, tasks[t].thread_id)
    /\ program = "flask" =>
          \A i \in 1..Len(runs) :
             \E t \in RunTasks : /\ tasks[t].run = i
                                  /\ runs[i].thread = tasks[t].thread_id
                                  /\ runs[i].by = tasks[t].by

\* Witness of C7: a task was enqueued for an initial request while another
\* thread had become the recorded one.
C7_Witness ==
    \E t \in RunTasks :
        /\ reqs[tasks[t].by].initial
        /\ tasks[t].run # 0
        /\ THREAD_ID # tasks[t].thread_id

IsPrefix(s, t) == Len(s) <= Len(t) /\ SubSeq(t, 1, Len(s)) = s

\* C8: threads are append-only: every step keeps every thread, and every
\* thread's earlier log is a prefix of its later log.
C8_ThreadsAppendOnly ==
    [][ /\ Len(threads') >= Len(threads)
        /\ \A t \in 1..Len(threads) : IsPrefix(threads[t].msgs, threads'[t].msgs) ]_vars

\* Witness of C8: a thread holds messages of two requests and of the assistant.
C8_Witness ==
    \E t \in 1..Len(threads) :
        /\ \E i, j \in 1..Len(threads[t].msgs) :
              threads[t].msgs[i].by # threads[t].msgs[j].by
        /\ \E i \in 1..Len(threads[t].msgs) : threads[t].msgs[i].role = "assistant"

\* The setup tasks that returned assistant_key k
ReturnedKey(k) ==
    {s \in SetupTasks : /\ tasks[s].state = "SUCCESS"
                        /\ "assistant_key" \in DOMAIN tasks[s].result
                        /\ tasks[s].result.assistant_key = k}

\* C9: a run started for a request carrying assistant_key k is started with the
\* id of the assistant whose setup task returned k, and Redis holds that id
\* under k until /api/end deletes it.
C9_AssistantIdUnchanged ==
    /\ \A t \in RunTasks :
          LET k == reqs[tasks[t].by].assistant_key IN
          /\ ReturnedKey(k) # {}
          /\ \A s \in ReturnedKey(k) : tasks[t].assistant_id = tasks[s].created
          /\ tasks[t].run # 0 => runs[tasks[t].run].assistant = tasks[t].assistant_id
    /\ \A s \in SetupTasks :
          (tasks[s].created # 0 /\ ~assistants[tasks[s].created].deleted) =>
             FlaskLookup(tasks[s].result.assistant_key) = tasks[s].created

\* Witness of C9: a run was started with the assistant of the key, and
\* /api/end has deleted that assistant since.
C9_Witness ==
    \E t \in RunTasks :
        /\ tasks[t].run # 0
        /\ assistants[tasks[t].assistant_id].deleted

\* C10: the Flask service creates and populates no vector store; every
\* assistant it creates has exactly the configured OPENAI_VECTOR_STORE_ID
\* attached, and with the id unset the setup task creates no assistant, stores
\* nothing in Redis and returns an error.
C10_VectorStoreOnlyReferenced ==
    program = "flask" =>
        /\ vectorStores = {"vs_1"}
        /\ \A a \in 1..Len(assistants) :
              /\ ~Falsy(OPENAI_VECTOR_STORE_ID)
              /\ assistants[a].vs = <<OPENAI_VECTOR_STORE_ID>>
        /\ \A e \in redis : \E s \in SetupTasks :
              /\ tasks[s].created # 0
              /\ e = [key |-> RedisKey(tasks[s].result.assistant_key),
                      val |-> Utf8Encode(tasks[s].created)]
        /\ Falsy(OPENAI_VECTOR_STORE_ID) =>
              /\ assistants = <<>>
              /\ redis = {}
              /\ \A s \in SetupTasks :
                    tasks[s].state = "SUCCESS" =>
                       /\ tasks[s].created = 0
                       /\ DOMAIN tasks[s].result = {"type", "error"}

\* Witness of C10: with the id unset a setup task has returned its error.
C10_Witness ==
    /\ program = "flask"
    /\ OPENAI_VECTOR_STORE_ID = NoneVal
    /\ \E s \in SetupTasks : tasks[s].state = "SUCCESS"

\* ------------------------------------------------------------ upload script

\* C11: when the script reaches its final success report and prints the
\* vector store id, all PDFs have been uploaded: the batch finished with
\* status completed, with no failed and no in-progress files.
C11_ReportOnlyAfterFullUpload ==
    (program = "script" /\ script.printed # NoneVal) =>
        /\ script.file_batch.status = "completed"
        /\ script.file_batch.failed = 0
        /\ script.file_batch.in_progress = 0
        /\ script.file_batch.completed = script.pdf_files

\* C12: the script makes no vendor call before its preconditions hold: the
\* vector store is created only after the API key was found, the files
\* directory exists, at least one PDF was found and the user answered yes; the
\* files are uploaded only after the vector store was created; when the user
\* declines the exit code is 0, and every other early exit has exit code 1.
C12_StepsInOrder ==
    program = "script" =>
        LET declined == script.response # NoneVal
                        /\ script.response \notin {"yes", "y", "YES", "Y"} IN
        /\ (script.vector_store # NoneVal \/ vectorStores # {"vs_1"}) =>
              /\ script.api_key = "sk-key"
              /\ script.files_dir
              /\ script.pdf_files >= 1
              /\ script.response \in {"yes", "y", "YES", "Y"}
        /\ script.file_batch # NoBatch =>
              /\ script.vector_store # NoneVal
              /\ script.vector_store \in vectorStores
        /\ script.pc = "exit" =>
              /\ declined => script.exit_code = 0
              /\ (~declined /\ script.printed = NoneVal) => script.exit_code = 1
              /\ script.printed # NoneVal => script.exit_code = 0
        /\ script.pc # "exit" => script.exit_code = -1

\* Witness of C12: the files were uploaded to the vector store the script
\* created, and the process has ended.
C12_Witness ==
    /\ program = "script"
    /\ script.pc = "exit"
    /\ script.file_batch.status = "completed"
    /\ script.vector_store \in vectorStores

\* ------------------------------------------------------- clients and races

FollowUps ==
    {r \in 1..Len(reqs) :
        \/ reqs[r].kind = "update_with_selections"
        \/ reqs[r].kind = "create_message" /\ ~reqs[r].initial}

\* C13: with two or more clients, the messages of a follow-up request
\* (create_message without initial_request, or update_with_selections) are
\* appended only to a thread created by an initial request of the same client,
\* never to a thread created by another client.
C13_FollowUpOnOwnThread ==
    \A r \in FollowUps : \A t \in AppendedTo(r) :
        reqs[threads[t].by].client = reqs[r].client

\* C14: a create_message or update_with_selections request answered with
\* HTTP 400 has had no effect: it created no thread (so THREAD_ID was not set
\* by it), appended no message to any thread, and enqueued no run.
C14_RejectedHasNoEffect ==
    \A r \in 1..Len(reqs) :
        (/\ reqs[r].kind \in {"create_message", "update_with_selections"}
         /\ reqs[r].resp.status = 400) =>
            /\ CreatedBy(r) = {}
            /\ THREAD_ID \notin CreatedBy(r)
            /\ AppendedTo(r) = {}
            /\ \A t \in RunTasks : tasks[t].by # r

\* the get_message responses given for the task a create_message or
\* update_with_selections request was answered with
MessageReports ==
    {r \in 1..Len(reqs) :
        /\ reqs[r].kind = "get_message"
        /\ reqs[r].task_id \in RunTasks}

\* C15: for a task id returned by create_message or update_with_selections,
\* get_message reports PENDING or, once the task has finished, the assistant's
\* text or an error indication; it never reports a state other than PENDING
\* and FAILURE together with an empty (null) result.
C15_NoEmptyResult ==
    \A r \in MessageReports :
        LET body == reqs[r].resp.body IN
        /\ reqs[r].resp.status = 200
        /\ body.state = "PENDING" => DOMAIN body = {"state", "status"}
        /\ body.state \notin {"PENDING", "FAILURE"} =>
              /\ "result" \in DOMAIN body
              /\ body.result.type # "None"
              /\ \/ body.result.type = "str"
                 \/ "error" \in DOMAIN body.result

\* the message requests that arrived, carrying the key of an assistant, after
\* /api/end had deleted that assistant at the vendor
LateRequests ==
    {r \in 1..Len(reqs) :
        /\ reqs[r].kind \in {"create_message", "update_with_selections"}
        /\ reqs[r].late}

\* C16: no run is started against a deleted assistant: once /api/end has
\* deleted the assistant of a key at the vendor, a request arriving with that
\* key gets no task and no run, and when it comes to the lookup of its key it
\* is answered 400 "Assistant not found in Redis or expired".
C16_NoRunAfterEnd ==
    \A r \in LateRequests :
          /\ \A t \in RunTasks : tasks[t].by # r
          /\ \A i \in 1..Len(runs) : runs[i].by # r
          /\ (reqs[r].pc = "done" /\ reqs[r].resp.status \in {202, 400}
                /\ reqs[r].resp.body # [error |-> "Thread ID not found"]) =>
                reqs[r].resp = [status |-> 400,
                                body |-> [error |-> "Assistant not found in Redis or expired"]]

\* the /api/start/status responses that report 'Assistant ready'
ReadyReports ==
    {r \in 1..Len(reqs) :
        /\ reqs[r].kind = "start/status"
        /\ reqs[r].resp.status = 200
        /\ "assistant_key" \in DOMAIN reqs[r].resp.body}

\* the first 'Assistant ready' response for its task, produced before any
\* /api/end carrying the reported key was received (the key is a digest no
\* client knows before this response)
FirstReady(r) ==
    \A e \in 1..(r - 1) :
        /\ ~(e \in ReadyReports /\ reqs[e].task_id = reqs[r].task_id)
        /\ ~(reqs[e].kind = "end"
               /\ reqs[e].assistant_key = reqs[r].resp.body.assistant_key)

\* C17: /api/start/status reports 'Assistant ready' with an assistant_key only
\* for a setup task that has created an assistant and stored its id in Redis
\* under assistant:<key>; when such a response is produced for the first time,
\* that Redis entry exists and holds the id of the assistant the task created.
C17_ReadyOnlyWhenStored ==
    \A r \in ReadyReports :
        LET s == reqs[r].task_id IN
        /\ reqs[r].resp.body.status = "Assistant ready"
        /\ s \in SetupTasks
        /\ tasks[s].created # 0
        /\ reqs[r].resp.body.assistant_key = Sha256Hex(tasks[s].created)
        /\ FirstReady(r) => reqs[r].stored = Utf8Encode(tasks[s].created)

\* Witness of C17: a first 'Assistant ready' response, given while Redis held
\* the entry of the reported key.
C17_Witness ==
    \E r \in ReadyReports : FirstReady(r) /\ reqs[r].stored # NoBytes

====
